---- MODULE Spec2Model ----
(***************************************************************************)
(* Model of bakytnur/simple-mcp: main.py (a FastMCP service exposing the   *)
(* tool get_host_info) and tools.py (the same function, importable or run  *)
(* as a script).  Strings are TLA+ strings; json.dumps is modelled at the  *)
(* character level (quoting, escaping, separators) and a small JSON reader *)
(* is used to state what the output parses to.                             *)
(***************************************************************************)
EXTENDS Naturals, Sequences, FiniteSets, TLC

VARIABLES
    entry,        \* which file runs and how: see Entries
    mpc,          \* position of the module-level code of that file
    mcp,          \* main.py's module-level service object (NoService before line 5)
    modglobals,   \* module-level names bound so far
    io,           \* log of the process's output effects (stdout, stderr, transport)
    exitStatus,   \* process exit status: <<>> while running, <<n>> once exited
    host,         \* what the OS facility reports now
    epoch,        \* how many times that report has changed
    pc,           \* per caller: position inside get_host_info
    system_info,  \* per caller: the local dict, as a sequence of <<key, value>>
    reported,     \* per caller: what the OS facility answered to this call, in order
    changed,      \* per caller: whether the report changed during this call
    last,         \* the most recently completed call, as its caller saw it, and
                  \* how it relates to the call completed before it
    oserr,        \* the error the OS facility raised to that call (None if none)
    nInvoked,     \* number of invocations begun
    nRegistered   \* number of tool registrations performed

vars == <<entry, mpc, mcp, modglobals, io, exitStatus, host, epoch, pc, system_info,
          reported, changed, last, oserr, nInvoked, nRegistered>>

None == "<None>"
NoService == [name |-> None, tools |-> {}]
Running == <<>>

\* ---------------------------------------------------------------- bounds
MaxInvocations == 3
MaxChanges == 1

Callers == {1, 2}
MainThread == 1

\* ------------------------------------------------------- the environment
Entries == {"main.py", "tools.py:__main__", "tools.py:import"}

ScenarioA == [system |-> "Linux", machine |-> "x86_64",
              platform |-> "Linux-5.15.0-x86_64-with-glibc2.31"]
\* platform.system() answers '' when the value cannot be determined; the
\* other two answers hold characters that JSON must escape
OddHost == [system |-> "", machine |-> "x\\y", platform |-> "\"q\"-1\n-x\\y"]

Hosts == {ScenarioA, OddHost}

Errors == {"OSError"}

\* ------------------------------------------------------------ json.dumps
Char(s, i) == SubSeq(s, i, i)

\* mutant: the encoder copies every character as it is
EscapeCharRaw(ch) == ch

\* json.encoder ESCAPE_ASCII replacement of one character
EscapeChar(ch) ==
    CASE ch = "\"" -> "\\\""
      [] ch = "\\" -> "\\\\"
      [] ch = "\n" -> "\\n"
      [] OTHER -> ch

RECURSIVE EscapeFrom(_, _)
EscapeFrom(s, i) ==
    IF i > Len(s) THEN "" ELSE EscapeChar(Char(s, i)) \o EscapeFrom(s, i + 1)

\* mutant: an empty value is written as null ("value or None")
encode_empty_as_null(s) ==
    IF s = "" THEN "null" ELSE "\"" \o EscapeFrom(s, 1) \o "\""

\* json.encoder.py_encode_basestring_ascii
encode_basestring_ascii(s) == "\"" \o EscapeFrom(s, 1) \o "\""

item_separator == ", "
key_separator == ": "

\* the items of a dict, in insertion order
RECURSIVE EncodeItems(_, _)
EncodeItems(d, i) ==
    IF i > Len(d) THEN ""
    ELSE (IF i > 1 THEN item_separator ELSE "")
         \o encode_basestring_ascii(d[i][1]) \o key_separator
         \o encode_basestring_ascii(d[i][2])
         \o EncodeItems(d, i + 1)

json_dumps(d) == "{" \o EncodeItems(d, 1) \o "}"

\* mutant: "os" is given the machine type
platform_system_swapped == host.machine

\* mutant: the machine type is memoised from the last successful call
platform_machine_cached ==
    IF last.outcome = "returned" THEN last.reported[2] ELSE host.machine

\* mutant: the platform string carries a per-call serial number
platform_platform_stamped == host.platform \o "-" \o ToString(nInvoked)

\* the platform module's answers
platform_system == host.system
platform_machine == host.machine
platform_platform == host.platform

\* ------------------------------------------------- reading JSON text back
\* (RFC 8259, restricted to what the claims need: an object whose member
\* values are strings or null; anything else is reported as not parsed)
NoParse == [ok |-> FALSE, members |-> <<>>]

IsWs(ch) == ch \in {" ", "\n", "\t"}

RECURSIVE SkipWs(_, _)
SkipWs(s, i) == IF i <= Len(s) /\ IsWs(Char(s, i)) THEN SkipWs(s, i + 1) ELSE i

\* the characters of a string literal after its opening quote
RECURSIVE ScanString(_, _, _)
ScanString(s, i, acc) ==
    IF i > Len(s) THEN [ok |-> FALSE, val |-> "", next |-> i]
    ELSE LET ch == Char(s, i) IN
         IF ch = "\"" THEN [ok |-> TRUE, val |-> acc, next |-> i + 1]
         ELSE IF ch = "\\" THEN
              IF i + 1 > Len(s) THEN [ok |-> FALSE, val |-> "", next |-> i]
              ELSE LET e == Char(s, i + 1) IN
                   IF e \in {"\"", "\\", "/"} THEN ScanString(s, i + 2, acc \o e)
                   ELSE IF e = "n" THEN ScanString(s, i + 2, acc \o "\n")
                   ELSE IF e = "t" THEN ScanString(s, i + 2, acc \o "\t")
                   ELSE [ok |-> FALSE, val |-> "", next |-> i]
         ELSE IF ch \in {"\n", "\t"} THEN [ok |-> FALSE, val |-> "", next |-> i]
         ELSE ScanString(s, i + 1, acc \o ch)

ReadString(s, i) ==
    IF i <= Len(s) /\ Char(s, i) = "\"" THEN ScanString(s, i + 1, "")
    ELSE [ok |-> FALSE, val |-> "", next |-> i]

ReadValue(s, i) ==
    IF i <= Len(s) /\ Char(s, i) = "\""
    THEN LET r == ScanString(s, i + 1, "") IN
         [ok |-> r.ok, type |-> "string", val |-> r.val, next |-> r.next]
    ELSE IF i + 3 <= Len(s) /\ SubSeq(s, i, i + 3) = "null"
    THEN [ok |-> TRUE, type |-> "null", val |-> None, next |-> i + 4]
    ELSE [ok |-> FALSE, type |-> "", val |-> "", next |-> i]

RECURSIVE ReadMembers(_, _, _)
ReadMembers(s, i, acc) ==
    LET k == ReadString(s, i) IN
    IF ~k.ok THEN NoParse
    ELSE LET c == SkipWs(s, k.next) IN
         IF ~(c <= Len(s) /\ Char(s, c) = ":") THEN NoParse
         ELSE LET v == ReadValue(s, SkipWs(s, c + 1)) IN
              IF ~v.ok THEN NoParse
              ELSE LET n == SkipWs(s, v.next)
                       m == Append(acc, [key |-> k.val, type |-> v.type, val |-> v.val])
                   IN IF n > Len(s) THEN NoParse
                      ELSE IF Char(s, n) = "," THEN ReadMembers(s, SkipWs(s, n + 1), m)
                      ELSE IF Char(s, n) = "}" /\ SkipWs(s, n + 1) > Len(s)
                           THEN [ok |-> TRUE, members |-> m]
                      ELSE NoParse

ParseJson(s) ==
    IF s = None THEN NoParse
    ELSE LET i == SkipWs(s, 1) IN
         IF ~(i <= Len(s) /\ Char(s, i) = "{") THEN NoParse
         ELSE LET j == SkipWs(s, i + 1) IN
              IF j <= Len(s) /\ Char(s, j) = "}" /\ SkipWs(s, j + 1) > Len(s)
              THEN [ok |-> TRUE, members |-> <<>>]
              ELSE ReadMembers(s, j, <<>>)

KeysOf(p) == {p.members[i].key : i \in 1..Len(p.members)}

\* ------------------------------------------------------------------ Init
NoCall == [outcome |-> "none", ret |-> None, exc |-> None,
           reported |-> <<>>, stable |-> FALSE, fresh |-> FALSE,
           hasBefore |-> FALSE, beforeSame |-> FALSE, equalBefore |-> FALSE]

Init ==
    /\ entry \in Entries
    /\ mpc = "start"
    /\ mcp = NoService
    /\ modglobals = {}
    /\ io = <<>>
    /\ exitStatus = Running
    /\ host \in Hosts
    /\ epoch = 0
    /\ pc = [c \in Callers |-> "idle"]
    /\ system_info = [c \in Callers |-> <<>>]
    /\ reported = [c \in Callers |-> <<>>]
    /\ changed = [c \in Callers |-> FALSE]
    /\ last = NoCall
    /\ oserr = None
    /\ nInvoked = 0
    /\ nRegistered = 0

callVars == <<pc, system_info, reported, changed, last, oserr, nInvoked>>
processVars == <<mcp, modglobals, io, exitStatus, nRegistered>>

InFlight(c) == pc[c] \in {"system", "machine", "platform", "dumps"}

\* ------------------------------------------------- main.py, module level
\* line 1-3, 5: imports, mcp = FastMCP("System Info Service")
FastMCP_init ==
    /\ entry = "main.py" /\ mpc = "start"
    /\ mcp' = [name |-> "System Info Service", tools |-> {}]
    /\ modglobals' = modglobals \cup {"FastMCP", "platform", "json", "mcp"}
    /\ mpc' = "constructed"
    /\ UNCHANGED <<entry, io, exitStatus, host, epoch, nRegistered>>
    /\ UNCHANGED callVars

\* mutant: the decorator is left out, the function is only defined
mcp_tool_missing ==
    /\ entry = "main.py" /\ mpc = "constructed"
    /\ modglobals' = modglobals \cup {"get_host_info"}
    /\ mpc' = "registered"
    /\ UNCHANGED <<entry, mcp, io, exitStatus, host, epoch, nRegistered>>
    /\ UNCHANGED callVars

\* line 7-8: @mcp.tool() registers the function under its own name and
\* binds it in the module
mcp_tool ==
    /\ entry = "main.py" /\ mpc = "constructed"
    /\ mcp' = [mcp EXCEPT !.tools = @ \cup {"get_host_info"}]
    /\ nRegistered' = nRegistered + 1
    /\ modglobals' = modglobals \cup {"get_host_info"}
    /\ mpc' = "registered"
    /\ UNCHANGED <<entry, io, exitStatus, host, epoch>>
    /\ UNCHANGED callVars

\* line 22: mcp.run() opens the transport and serves
mcp_run ==
    /\ entry = "main.py" /\ mpc = "registered"
    /\ io' = Append(io, [kind |-> "transport", data |-> "open"])
    /\ mpc' = "serving"
    /\ UNCHANGED <<entry, mcp, modglobals, exitStatus, host, epoch, nRegistered>>
    /\ UNCHANGED callVars

\* line 22: mcp.run() returns when the transport closes; the module ends
mcp_run_return ==
    /\ entry = "main.py" /\ mpc = "serving"
    /\ \A c \in Callers : ~InFlight(c)
    /\ io' = Append(io, [kind |-> "transport", data |-> "close"])
    /\ mpc' = "stopped"
    /\ exitStatus' = <<0>>
    /\ UNCHANGED <<entry, mcp, modglobals, host, epoch, nRegistered>>
    /\ UNCHANGED callVars

\* ------------------------------------------------ tools.py, module level
\* line 1-4: imports, def get_host_info
tools_def ==
    /\ entry \in {"tools.py:__main__", "tools.py:import"} /\ mpc = "start"
    /\ modglobals' = modglobals \cup {"platform", "json", "get_host_info"}
    /\ mpc' = "defined"
    /\ UNCHANGED <<entry, mcp, io, exitStatus, host, epoch, nRegistered>>
    /\ UNCHANGED callVars

\* line 18, __name__ is not "__main__": the module is imported, nothing runs
tools_imported ==
    /\ entry = "tools.py:import" /\ mpc = "defined"
    /\ mpc' = "imported"
    /\ UNCHANGED <<entry, mcp, modglobals, io, exitStatus, host, epoch, nRegistered>>
    /\ UNCHANGED callVars

\* -------------------------------------------------------- get_host_info
\* a call enters the function: a fresh frame, nothing carried over
BeginCall(c) ==
    /\ pc' = [pc EXCEPT ![c] = "system"]
    /\ system_info' = [system_info EXCEPT ![c] = <<>>]
    /\ reported' = [reported EXCEPT ![c] = <<>>]
    /\ changed' = [changed EXCEPT ![c] = FALSE]
    /\ nInvoked' = nInvoked + 1
    /\ UNCHANGED <<last, oserr>>

\* the framework (main.py, while serving) or an importer of tools.py calls;
\* a new call takes the lowest free slot (slots only tell calls in flight apart)
Invoke(c) ==
    /\ \/ entry = "main.py" /\ mpc = "serving" /\ "get_host_info" \in mcp.tools
       \/ entry = "tools.py:import" /\ mpc = "imported"
    /\ ~InFlight(c)
    /\ \A d \in Callers : d < c => InFlight(d)
    /\ nInvoked < MaxInvocations
    /\ BeginCall(c)
    /\ UNCHANGED <<entry, mpc, host, epoch>>
    /\ UNCHANGED processVars

\* tools.py line 18-19, __name__ is "__main__": the argument of print is
\* evaluated, which calls get_host_info once on the main thread
tools_main_call ==
    /\ entry = "tools.py:__main__" /\ mpc = "defined"
    /\ BeginCall(MainThread)
    /\ mpc' = "in_call"
    /\ UNCHANGED <<entry, host, epoch>>
    /\ UNCHANGED processVars

\* mutant: system_info is one module-level dict shared by all calls
PutItemShared(c, key, value, next) ==
    /\ system_info' = [d \in Callers |-> Append(system_info[d], <<key, value>>)]
    /\ pc' = [pc EXCEPT ![c] = next]
    /\ UNCHANGED <<changed, last, oserr, nInvoked>>
    /\ UNCHANGED <<entry, mpc, host, epoch>>
    /\ UNCHANGED processVars

\* one entry of the dict display: key, then the platform call's answer
PutItem(c, key, value, next) ==
    /\ system_info' = [system_info EXCEPT ![c] = Append(@, <<key, value>>)]
    /\ pc' = [pc EXCEPT ![c] = next]
    /\ UNCHANGED <<changed, last, oserr, nInvoked>>
    /\ UNCHANGED <<entry, mpc, host, epoch>>
    /\ UNCHANGED processVars

\* line 12 (tools.py) / 16 (main.py): "os": platform.system()
ReadSystem(c) ==
    /\ pc[c] = "system"
    /\ reported' = [reported EXCEPT ![c] = Append(@, host.system)]
    /\ PutItem(c, "os", platform_system, "machine")

\* line 13 / 17: "architecture": platform.machine()
ReadMachine(c) ==
    /\ pc[c] = "machine"
    /\ reported' = [reported EXCEPT ![c] = Append(@, host.machine)]
    /\ PutItem(c, "architecture", platform_machine, "platform")

\* line 14 / 18: "platform": platform.platform()
ReadPlatform(c) ==
    /\ pc[c] = "platform"
    /\ reported' = [reported EXCEPT ![c] = Append(@, host.platform)]
    /\ PutItem(c, "platform", platform_platform, "dumps")

\* the call is over: its frame is discarded and the caller holds the outcome
Complete(c, outcome, r, x) ==
    /\ last' = [outcome |-> outcome, ret |-> r, exc |-> x,
                reported |-> reported[c], stable |-> ~changed[c], fresh |-> TRUE,
                hasBefore |-> last.outcome = "returned",
                beforeSame |-> last.stable /\ last.fresh,
                equalBefore |-> last.outcome = "returned" /\ r = last.ret]
    /\ pc' = [pc EXCEPT ![c] = "idle"]
    /\ system_info' = [system_info EXCEPT ![c] = <<>>]
    /\ reported' = [reported EXCEPT ![c] = <<>>]
    /\ changed' = [changed EXCEPT ![c] = FALSE]
    /\ UNCHANGED nInvoked

\* mutant: the exception is caught and what was gathered is returned
PropagateMasked(c, e) == Complete(c, "returned", json_dumps(system_info[c]), None)

\* no try/except around the dict display: the exception leaves the function
Propagate(c, e) == Complete(c, "raised", None, e)

\* the platform call of the current line raises
ReadFail(c, e) ==
    /\ pc[c] \in {"system", "machine", "platform"}
    /\ oserr' = e
    /\ Propagate(c, e)
    /\ UNCHANGED <<entry, mpc, host, epoch>>
    /\ UNCHANGED processVars

\* mutant: the function also prints what it returns
ReturnPrinting(c) ==
    /\ pc[c] = "dumps"
    /\ oserr' = None
    /\ Complete(c, "returned", json_dumps(system_info[c]), None)
    /\ io' = Append(io, [kind |-> "stdout", data |-> json_dumps(system_info[c])])
    /\ UNCHANGED <<entry, mpc, host, epoch>>
    /\ UNCHANGED <<mcp, modglobals, exitStatus, nRegistered>>

\* line 16 / 20: return json.dumps(system_info)
Return(c) ==
    /\ pc[c] = "dumps"
    /\ oserr' = None
    /\ Complete(c, "returned", json_dumps(system_info[c]), None)
    /\ UNCHANGED <<entry, mpc, host, epoch>>
    /\ UNCHANGED processVars

\* --------------------------------------------- tools.py, after the call
\* mutant: print(..., end="")
tools_print_no_newline ==
    /\ entry = "tools.py:__main__" /\ mpc = "in_call"
    /\ last.outcome = "returned"
    /\ io' = Append(io, [kind |-> "stdout", data |-> last.ret])
    /\ mpc' = "printed"
    /\ UNCHANGED <<entry, mcp, modglobals, exitStatus, host, epoch, nRegistered>>
    /\ UNCHANGED callVars

\* line 19: print(<the returned string>) writes it and a newline to stdout
tools_print ==
    /\ entry = "tools.py:__main__" /\ mpc = "in_call"
    /\ last.outcome = "returned"
    /\ io' = Append(io, [kind |-> "stdout", data |-> last.ret \o "\n"])
    /\ mpc' = "printed"
    /\ UNCHANGED <<entry, mcp, modglobals, exitStatus, host, epoch, nRegistered>>
    /\ UNCHANGED callVars

\* end of module: the interpreter exits with status 0
tools_exit ==
    /\ entry = "tools.py:__main__" /\ mpc = "printed"
    /\ exitStatus' = <<0>>
    /\ mpc' = "exited"
    /\ UNCHANGED <<entry, mcp, modglobals, io, host, epoch, nRegistered>>
    /\ UNCHANGED callVars

\* line 19: the exception is not caught at module level either; the
\* interpreter writes the traceback to stderr and exits with status 1
tools_uncaught ==
    /\ entry = "tools.py:__main__" /\ mpc = "in_call"
    /\ last.outcome = "raised"
    /\ io' = Append(io, [kind |-> "stderr", data |-> "Traceback: " \o last.exc])
    /\ exitStatus' = <<1>>
    /\ mpc' = "exited"
    /\ UNCHANGED <<entry, mcp, modglobals, host, epoch, nRegistered>>
    /\ UNCHANGED callVars

\* ------------------------------------------------------ the environment
\* the host's report changes (kernel upgrade, migration of the process)
HostChange(h) ==
    /\ epoch < MaxChanges
    /\ exitStatus = Running
    /\ h # host
    /\ host' = h
    /\ epoch' = epoch + 1
    /\ changed' = [c \in Callers |-> InFlight(c)]
    /\ last' = [last EXCEPT !.fresh = FALSE]
    /\ UNCHANGED <<pc, system_info, reported, oserr, nInvoked>>
    /\ UNCHANGED <<entry, mpc>>
    /\ UNCHANGED processVars

Next ==
    \/ FastMCP_init
    \/ mcp_tool
    \/ mcp_run
    \/ mcp_run_return
    \/ tools_def
    \/ tools_imported
    \/ tools_main_call
    \/ tools_print
    \/ tools_exit
    \/ tools_uncaught
    \/ \E c \in Callers : Invoke(c)
    \/ \E c \in Callers : ReadSystem(c)
    \/ \E c \in Callers : ReadMachine(c)
    \/ \E c \in Callers : ReadPlatform(c)
    \/ \E c \in Callers, e \in Errors : ReadFail(c, e)
    \/ \E c \in Callers : Return(c)
    \/ \E h \in Hosts : HostChange(h)

Spec == Init /\ [][Next]_vars

\* ================================================================ claims
Returned == last.outcome = "returned"
FieldKeys == <<"os", "architecture", "platform">>
Stdout == SelectSeq(io, LAMBDA ev : ev.kind = "stdout")

RECURSIVE PlainFrom(_, _)
PlainFrom(s, i) ==
    i > Len(s) \/ (Char(s, i) \notin {"\"", "\\", "\n", "\t"} /\ PlainFrom(s, i + 1))
Plain(s) == PlainFrom(s, 1)
C2_OrderVerbatim ==
    Returned =>
        LET r == last.reported
            Parsed == ParseJson(last.ret)
        IN
        /\ Parsed.ok
        /\ Len(r) = 3
        /\ Parsed.members = [i \in 1..3 |->
                               [key |-> FieldKeys[i], type |-> "string", val |-> r[i]]]
        /\ (\A i \in 1..3 : Plain(r[i])) =>
              last.ret = "{\"os\": \"" \o r[1] \o "\", \"architecture\": \"" \o r[2]
                         \o "\", \"platform\": \"" \o r[3] \o "\"}"
        /\ r = <<"Linux", "x86_64", "Linux-5.15.0-x86_64-with-glibc2.31">> =>
              last.ret = "{\"os\": \"Linux\", \"architecture\": \"x86_64\", \"platform\": \"Linux-5.15.0-x86_64-with-glibc2.31\"}"

\* a call on the Linux host of Scenario A returned
C2_Witness ==
    /\ Returned
    /\ last.reported = <<"Linux", "x86_64", "Linux-5.15.0-x86_64-with-glibc2.31">>

\* C3: when a call returns after the previously completed call returned, and
\* the host's report changed during neither call nor between them, the two
\* returned strings are identical.
C3_Deterministic ==
    (Returned /\ last.stable /\ last.beforeSame /\ last.hasBefore) =>
        last.equalBefore

\* two consecutive returns on an unchanged host, after an earlier invocation
C3_Witness ==
    /\ Returned /\ last.stable /\ last.beforeSame /\ last.hasBefore
    /\ nInvoked >= 3

\* C4: when the OS facility raises during any of the three reads, the call
\* ends with that same exception, no string is returned, nothing is written
\* to standard output, and the script does not exit with status 0.
C4_ErrorPropagates ==
    oserr # None =>
        /\ last.outcome = "raised"
        /\ last.exc = oserr
        /\ last.ret = None
        /\ Stdout = <<>>
        /\ entry = "tools.py:__main__" => exitStatus # <<0>>

\* the facility failed on the third read; the script ended with a traceback
C4_Witness ==
    /\ oserr # None
    /\ Len(last.reported) = 2
    /\ entry = "tools.py:__main__" /\ mpc = "exited"

\* C5: a call during which the report did not change returns the values the
\* host reports now, whatever earlier calls returned.
C5_Fresh ==
    (Returned /\ last.stable /\ last.fresh) =>
        LET Parsed == ParseJson(last.ret) IN
        /\ Parsed.ok
        /\ [i \in 1..Len(Parsed.members) |-> Parsed.members[i].val]
             = <<host.system, host.machine, host.platform>>

\* the report changed after an earlier call returned; the next call returned
\* something else
C5_Witness ==
    /\ Returned /\ last.stable /\ last.fresh
    /\ epoch >= 1
    /\ last.hasBefore /\ ~last.equalBefore

C7_NoSideEffects ==
    [][\A c \in Callers :
          pc'[c] # pc[c] =>
              /\ UNCHANGED <<mcp, modglobals, io, exitStatus, nRegistered, host, epoch>>
              /\ \A d \in Callers \ {c} :
                    /\ pc'[d] = pc[d]
                    /\ system_info'[d] = system_info[d]
                    /\ reported'[d] = reported[d]]_vars

\* the served tool returned; the registry and the output log are as
\* mcp.run() left them
C7_Witness ==
    /\ entry = "main.py" /\ mpc = "serving"
    /\ Returned
    /\ mcp.tools = {"get_host_info"}
    /\ io = <<[kind |-> "transport", data |-> "open"]>>

\* C8: under every interleaving of calls on an unchanged host, each call is
\* about to return, or has returned, the string a lone call returns.
Sequential(h) ==
    json_dumps(<<<<"os", h.system>>, <<"architecture", h.machine>>,
                 <<"platform", h.platform>>>>)
C8_Concurrent ==
    /\ \A c \in Callers :
          (pc[c] = "dumps" /\ ~changed[c]) =>
              json_dumps(system_info[c]) = Sequential(host)
    /\ (Returned /\ last.stable /\ last.fresh) => last.ret = Sequential(host)

\* two calls are in flight at once, both with all three values read, after
\* another call returned
C8_Witness ==
    /\ \A c \in Callers : pc[c] = "dumps" /\ ~changed[c]
    /\ Returned /\ last.stable /\ last.fresh

\* C9: run as a script, if the OS facility does not fail, the program calls
\* get_host_info once, writes the returned string and one newline to
\* standard output and nothing else, and exits with status 0; until then a
\* step of the script is always possible.
ScriptStep ==
    \/ tools_def \/ tools_main_call \/ tools_print \/ tools_exit \/ tools_uncaught
    \/ ReadSystem(MainThread) \/ ReadMachine(MainThread) \/ ReadPlatform(MainThread)
    \/ Return(MainThread)
C9_Script ==
    entry = "tools.py:__main__" =>
        /\ nInvoked <= 1
        /\ mpc # "exited" => ENABLED ScriptStep
        /\ (mpc = "exited" /\ oserr = None) =>
              /\ nInvoked = 1
              /\ Returned
              /\ io = <<[kind |-> "stdout", data |-> last.ret \o "\n"]>>
              /\ exitStatus = <<0>>

\* the script printed and exited
C9_Witness ==
    /\ entry = "tools.py:__main__" /\ mpc = "exited" /\ oserr = None
    /\ exitStatus = <<0>>

\* C10: whenever main.py is serving (or has served), the registered tool
\* set is exactly {get_host_info} and one registration has been performed,
\* which happened before mcp.run().
C10_RegisteredBeforeServing ==
    /\ mpc \in {"serving", "stopped"} =>
          /\ mcp.tools = {"get_host_info"}
          /\ nRegistered = 1
    /\ mpc \in {"start", "constructed"} => nRegistered = 0

\* the service is serving and has answered a call
C10_Witness ==
    /\ entry = "main.py" /\ mpc = "serving"
    /\ last.outcome # "none"

====
